---- MODULE Spec2Model ----
(***************************************************************************)
(* Edge-controller command path of the model-train control system.        *)
(*                                                                         *)
(* The model covers MQTTClient._on_message (mqtt_client.py), the command   *)
(* executor EdgeControllerApp._handle_command / _handle_speed_command /    *)
(* _execute_hardware_command / _publish_current_status (main.py), the      *)
(* module-level train_status dictionary (controllers.py) and the           *)
(* DCMotorHatController driver (dc_motor_hat.py).                          *)
(*                                                                         *)
(* The speed ramp is a coroutine handed to an asyncio event loop with      *)
(* run_coroutine_threadsafe.  The loop is modelled by its FIFO queue of    *)
(* ready callbacks (ready): the callback that creates the task, the task's *)
(* steps, and the cancel request that run_coroutine_threadsafe forwards    *)
(* from the concurrent future to the task.                                 *)
(*                                                                         *)
(* Four specifications share the module: Spec (the command path), CfgSpec  *)
(* (ConfigManager.initialize(), config/manager.py), ChanSpec (the start-up *)
(* in EdgeControllerApp.initialize() and the MQTTClient session: start,    *)
(* connect callbacks, publish_status, stop) and ApiSpec (the calls of      *)
(* CentralAPIClient, api/client.py, each on its own).  Each holds the      *)
(* variables of the others fixed.                                          *)
(***************************************************************************)
EXTENDS Integers, Sequences, FiniteSets, TLC

\* ------------------------------------------------------------------ bounds
\* number of inbound messages handled in one behaviour
MaxCmds == 2
MaxBoots == 2
\* channel operations in one behaviour, and the largest max_retries tried
MaxOps == 3
MaxTries == 3

\* ------------------------------------------------------- program constants
SpeedMin == 0
SpeedMax == 100
DefaultSpeed == 50
Forward == 1
Reverse == 0

\* command.get("speed") for a command without the key, and for a JSON null
NoSpeed == -99
NullSpeed == -98
\* argument slot of a driver call that has no such argument
NoArg == -97

\* ------------------------------------------------------------ input domains
Actions == {"none", "start", "stop", "setSpeed", "setDirection", "blink"}
\* direction values of a command: key absent, the strings of the spec, and
\* the legacy integers 1 and 0 (written "i1" and "i0")
Directions == {"absent", "forward", "BACKWARD", "i1", "i0"}
\* speeds that reach the ramp (setSpeed or bare speed)
RampSpeeds == {-1, 0, 2, 3}
\* speeds of the commands that are executed synchronously
StartSpeeds == {NoSpeed, NullSpeed, 2, 101}

Command(a, s, d) == [action |-> a, speed |-> s, direction |-> d]

Commands ==
    {Command("start", s, d) : s \in StartSpeeds, d \in {"absent", "BACKWARD"}}
    \cup {Command("stop", NoSpeed, "absent")}
    \cup {Command(a, s, d) : a \in {"setSpeed", "none"}, s \in RampSpeeds,
                             d \in {"absent", "BACKWARD"}}
    \cup {Command("setSpeed", NoSpeed, "absent")}
    \cup {Command("setDirection", NoSpeed, d) : d \in Directions}
    \cup {Command("blink", NoSpeed, "absent"), Command("none", NoSpeed, "forward")}

NoCommand == Command("none", NoSpeed, "absent")

\* An inbound MQTT payload: raw bytes that are valid UTF-8 or not, that are
\* well-formed JSON or not, and the JSON value they encode.
Payload(u, w, k, c) == [utf8 |-> u, wellformed |-> w, kind |-> k, value |-> c]

Payloads ==
    {Payload(FALSE, FALSE, "none", NoCommand), Payload(TRUE, FALSE, "none", NoCommand)}
    \cup {Payload(TRUE, TRUE, k, NoCommand) : k \in {"array", "string", "number", "null"}}
    \cup {Payload(TRUE, TRUE, "object", c) : c \in Commands}

\* ---------------------------------------------------------------- exceptions
\* Python exception classes that occur on the command path.  CancelledError
\* derives from BaseException, the others from Exception.
NoExc == "none"
IsException(e) == e \in {"OSError", "TypeError", "MQTTPublishError", "RuntimeError",
                         "UnicodeDecodeError", "JSONDecodeError", "HandlerError"}

\* ----------------------------------------------------------------- driver
\* DCMotorHatController: recorded state and the four operations.  fail says
\* that the I2C write of the operation raises OSError after its retries; the
\* recorded state is assigned after the write and stays as it was.
InitHw == [current_speed |-> 0, current_direction |-> Forward]

Call(op, s, d) == [op |-> op, speed |-> s, dir |-> d]

Clamp(speed) ==
    IF speed < SpeedMin THEN SpeedMin ELSE IF speed > SpeedMax THEN SpeedMax ELSE speed

set_direction(h, direction, fail) ==
    IF fail THEN [hw |-> h, exc |-> "OSError"]
    ELSE [hw |-> [h EXCEPT !.current_direction =
                      IF direction = Forward THEN Forward ELSE Reverse],
          exc |-> NoExc]

set_speed(h, speed, fail) ==
    IF speed = NullSpeed THEN [hw |-> h, exc |-> "TypeError"]
    ELSE IF fail THEN [hw |-> h, exc |-> "OSError"]
    ELSE [hw |-> [h EXCEPT !.current_speed = Clamp(speed)], exc |-> NoExc]

\* start: set_direction, then set_speed; failAt = 1 fails the first write,
\* failAt = 2 the second
start(h, speed, direction, failAt) ==
    LET r1 == set_direction(h, direction, failAt = 1)
    IN  IF r1.exc # NoExc THEN r1 ELSE set_speed(r1.hw, speed, failAt = 2)

stop(h, fail) ==
    IF fail THEN [hw |-> h, exc |-> "OSError"]
    ELSE [hw |-> [h EXCEPT !.current_speed = 0], exc |-> NoExc]

\* ---------------------------------------------------------- status publish
Status(h, sent) ==
    [speed |-> h.current_speed,
     direction |-> IF h.current_direction = Forward THEN "FORWARD" ELSE "BACKWARD",
     sent |-> sent]

\* _publish_current_status: builds the snapshot from the driver's accessors
\* and hands it to MQTTClient.publish_status; sent = FALSE is a publish that
\* raises MQTTPublishError, which is caught here.  Yields the snapshots handed
\* over and the exception that leaves the method.
PublishCurrentStatus(h, sent) ==
    LET exc == IF sent THEN NoExc ELSE "MQTTPublishError"
    IN  [pubs |-> <<Status(h, sent)>>,
         exc |-> IF IsException(exc) THEN NoExc ELSE exc]

\* ---------------------------------------------------- synchronous commands
Upper(s) == IF s = "forward" THEN "FORWARD" ELSE s

\* comparing the direction string without converting it to upper case
normalize_direction_CaseSensitive(direction_param) ==
    IF direction_param = "absent" THEN Forward
    ELSE IF direction_param = "i1" THEN 1
    ELSE IF direction_param = "i0" THEN 0
    ELSE IF direction_param = "FORWARD" THEN Forward ELSE Reverse

\* normalize_direction: None -> 1, a string -> 1 iff it is "FORWARD" in
\* upper case, an integer is passed through
normalize_direction(direction_param) ==
    IF direction_param = "absent" THEN Forward
    ELSE IF direction_param = "i1" THEN 1
    ELSE IF direction_param = "i0" THEN 0
    ELSE IF Upper(direction_param) = "FORWARD" THEN Forward ELSE Reverse

\* the outcome of a piece of the command path: the driver state, the driver
\* calls made, the snapshots handed to publish_status, the exception that
\* leaves the piece and the first exception raised inside it
Outcome(h, calls, pubs, exc, raised) ==
    [hw |-> h, calls |-> calls, pubs |-> pubs, exc |-> exc, raised |-> raised]

\* a driver call followed by the status publish of the same branch
ThenPublish(r, calls, sent) ==
    IF r.exc # NoExc THEN Outcome(r.hw, calls, <<>>, r.exc, r.exc)
    ELSE LET p == PublishCurrentStatus(r.hw, sent)
         IN  Outcome(r.hw, calls, p.pubs, p.exc,
                     IF sent THEN NoExc ELSE "MQTTPublishError")

\* the try block of _execute_hardware_command (main.py 429-487)
HardwareAction(command, h, failAt, sent) ==
    LET action == IF command.action = "none" /\ command.speed # NoSpeed
                  THEN "setSpeed" ELSE command.action
        speed == IF command.speed = NoSpeed THEN DefaultSpeed ELSE command.speed
        direction == normalize_direction(command.direction)
    IN  CASE action = "start" ->
               ThenPublish(start(h, speed, direction, failAt),
                           <<Call("start", speed, direction)>>, sent)
          [] action = "stop" ->
               ThenPublish(stop(h, failAt = 1), <<Call("stop", NoArg, NoArg)>>, sent)
          [] action = "setSpeed" ->
               IF command.direction # "absent"
               THEN LET r1 == set_direction(h, direction, failAt = 1)
                        c1 == Call("set_direction", NoArg, direction)
                    IN  IF r1.exc # NoExc
                        THEN Outcome(r1.hw, <<c1>>, <<>>, r1.exc, r1.exc)
                        ELSE ThenPublish(set_speed(r1.hw, speed, failAt = 2),
                                         <<c1, Call("set_speed", speed, NoArg)>>, sent)
               ELSE ThenPublish(set_speed(h, speed, failAt = 1),
                                <<Call("set_speed", speed, NoArg)>>, sent)
          [] action = "setDirection" ->
               ThenPublish(set_direction(h, direction, failAt = 1),
                           <<Call("set_direction", NoArg, direction)>>, sent)
          [] OTHER -> Outcome(h, <<>>, <<>>, NoExc, NoExc)

\* whether a stop is in force after the command: an executed stop (main.py
\* 444-450: hardware_controller.stop() did not raise) puts it in force, a start
\* or setSpeed command (a bare speed included) lifts it
Holds(command, raised, was) ==
    LET action == IF command.action = "none" /\ command.speed # NoSpeed
                  THEN "setSpeed" ELSE command.action
    IN  IF action = "stop" THEN (raised # "OSError" \/ was)
        ELSE IF action \in {"start", "setSpeed"} THEN FALSE
        ELSE was

\* the try block without its exception handler
ExecuteHardwareCommand_NoCatch(command, h, failAt, sent) ==
    HardwareAction(command, h, failAt, sent)

\* _execute_hardware_command: the try block under "except Exception"
ExecuteHardwareCommand(command, h, failAt, sent) ==
    LET body == HardwareAction(command, h, failAt, sent)
    IN  [body EXCEPT !.exc = IF IsException(body.exc) THEN NoExc ELSE body.exc]

\* ------------------------------------------------------------ ramp tasks
\* A ramp task: the coroutine _handle_speed_command(target) together with
\* its asyncio task and the concurrent future kept in self.speed_task.
\*   st: "none"       not created
\*       "pending"    run_coroutine_threadsafe has queued the creating callback
\*       "ready"      task created, first step queued
\*       "sleeping"   suspended in asyncio.sleep, timer armed
\*       "woken"      timer fired, next step queued
\*       "cancelling" sleep cancelled, step that raises CancelledError queued
\*       "done" | "failed" | "cancelled"   coroutine has ended
NoTask ==
    [st |-> "none", target |-> 0, cur |-> 0, step |-> 0, seq |-> 0,
     mustCancel |-> FALSE, cfCancelled |-> FALSE, nSet |-> 0, nPub |-> 0]

Finished(t) == t.st \in {"done", "failed", "cancelled"}
Live(t) == t.st \in {"pending", "ready", "sleeping", "woken", "cancelling"}
\* speed_task.done() of the concurrent future
FutureDone(t) == t.cfCancelled \/ Finished(t)

Item(type, i) == [type |-> type, task |-> i]

Abs(x) == IF x < 0 THEN -x ELSE x
\* a step direction that does not look at the sign of the difference
Sign_AlwaysUp(x) == 1
Sign(x) == IF x > 0 THEN 1 ELSE -1

\* scheduling the new ramp without cancelling the previous one
CancelPrevious_Skipped(tk, rdy, i) == [tasks |-> tk, ready |-> rdy]

\* main.py 294-295: cancel the previous ramp's future if it is not done; a
\* future already chained to its task forwards the cancel to the loop
CancelPrevious(tk, rdy, i) ==
    IF i # 0 /\ ~FutureDone(tk[i])
    THEN [tasks |-> [tk EXCEPT ![i].cfCancelled = TRUE],
          ready |-> IF tk[i].st = "pending" THEN rdy
                    ELSE Append(rdy, Item("cancel", i))]
    ELSE [tasks |-> tk, ready |-> rdy]

\* running the ramp to its end inside the handler instead of queueing it
ScheduleRamp_Inline(tk, rdy, n, speed, seq) ==
    [tasks |-> [tk EXCEPT ![n] = [NoTask EXCEPT !.st = "done", !.target = speed,
                                                !.seq = seq]],
     ready |-> rdy]

\* main.py 300-303: run_coroutine_threadsafe(self._handle_speed_command(speed))
ScheduleRamp(tk, rdy, n, speed, seq) ==
    [tasks |-> [tk EXCEPT ![n] = [NoTask EXCEPT !.st = "pending", !.target = speed,
                                                !.seq = seq]],
     ready |-> Append(rdy, Item("create", n))]

\* the state the command path works on
State(ts, h, stask, tk, rdy, loop) ==
    [train_speed |-> ts, hw |-> h, speed_task |-> stask, tasks |-> tk,
     ready |-> rdy, loopAvailable |-> loop]

\* the result of handling one command
Handled(S, o, sched) ==
    [S |-> [S EXCEPT !.hw = o.hw], calls |-> o.calls, pubs |-> o.pubs,
     exc |-> o.exc, raised |-> o.raised, sched |-> sched]

\* _handle_command (main.py 263-311); seq numbers the command
HandleCommand(command, S, seq, failAt, sent) ==
    LET action == command.action
        speed == command.speed
    IN  IF (action = "setSpeed" \/ (speed # NoSpeed /\ action = "none"))
           /\ speed \notin {NoSpeed, NullSpeed}
        THEN LET c == CancelPrevious(S.tasks, S.ready, S.speed_task)
                 S1 == [S EXCEPT !.tasks = c.tasks, !.ready = c.ready]
             IN  IF S.loopAvailable
                 THEN LET n == S.speed_task + 1
                          r == ScheduleRamp(S1.tasks, S1.ready, n, speed, seq)
                      IN  Handled([S1 EXCEPT !.tasks = r.tasks, !.ready = r.ready,
                                             !.speed_task = n],
                                  Outcome(S.hw, <<>>, <<>>, NoExc, NoExc), n)
                 ELSE \* asyncio.get_event_loop() raises RuntimeError: fall back
                      LET o == ExecuteHardwareCommand(command, S.hw, failAt, sent)
                      IN  Handled(S1, [o EXCEPT !.raised = "RuntimeError"], 0)
        ELSE Handled(S, ExecuteHardwareCommand(command, S.hw, failAt, sent), 0)

\* one turn of the coroutine _handle_speed_command (main.py 313-366) between
\* two suspension points, for task t with the recorded speed ts
RampBody(t, ts, h, fail, sent) ==
    IF t.st = "cancelling" \/ t.mustCancel
    THEN [task |-> t, train_speed |-> ts, o |-> Outcome(h, <<>>, <<>>, "CancelledError",
                                                        "CancelledError")]
    ELSE LET cur == IF t.st = "ready" THEN ts ELSE t.cur
             diff == t.target - cur
             k == t.step + 1
             new_speed == cur + k * Sign(diff)
             r == set_speed(h, new_speed, fail)
             t1 == [t EXCEPT !.cur = cur, !.step = k, !.nSet = @ + 1, !.nPub = @ + 1]
         IN  IF diff = 0
             THEN [task |-> [t EXCEPT !.cur = cur, !.st = "done"], train_speed |-> ts,
                   o |-> Outcome(h, <<>>, <<>>, NoExc, NoExc)]
             ELSE [task |-> [t1 EXCEPT !.st = IF k < Abs(diff) THEN "sleeping" ELSE "done"],
                   train_speed |-> new_speed,
                   o |-> IF r.exc # NoExc
                         THEN Outcome(r.hw, <<Call("set_speed", new_speed, NoArg)>>, <<>>,
                                      r.exc, r.exc)
                         ELSE ThenPublish(r, <<Call("set_speed", new_speed, NoArg)>>, sent)]

\* _handle_speed_command: the body under "except Exception", whose handler
\* publishes the current status; any other exception ends the task
HandleSpeedCommand(t, ts, h, fail, sent) ==
    LET b == RampBody(t, ts, h, fail, sent)
    IN  IF b.o.exc = NoExc THEN b
        ELSE IF IsException(b.o.exc)
        THEN LET p == PublishCurrentStatus(b.o.hw, sent)
             IN  [b EXCEPT !.task.st = "failed",
                           !.o = Outcome(b.o.hw, b.o.calls, p.pubs, p.exc, b.o.raised)]
        ELSE [b EXCEPT !.task.st = "cancelled"]

\* a task that takes no notice of a cancel request
TaskCancel_Ignored(t) == t

\* Task.cancel() run by the loop
TaskCancel(t) ==
    IF Finished(t) THEN t
    ELSE IF t.st = "sleeping" THEN [t EXCEPT !.st = "cancelling"]
    ELSE [t EXCEPT !.mustCancel = TRUE]

\* MQTTClient._on_message (mqtt_client.py 252-313): the handler's result, or
\* the exception raised before it is reached
Decode(p) ==
    IF ~p.utf8 THEN [exc |-> "UnicodeDecodeError", kind |-> "none", value |-> NoCommand]
    ELSE IF ~p.wellformed
    THEN [exc |-> "JSONDecodeError", kind |-> "none", value |-> NoCommand]
    ELSE [exc |-> NoExc, kind |-> p.kind, value |-> p.value]

\* forwarding every well-formed JSON value, object or not
OnMessageResult_NoTypeCheck(p, hexc) ==
    LET d == Decode(p)
        call == d.exc = NoExc
        exc == IF d.exc # NoExc THEN d.exc ELSE IF call THEN hexc ELSE NoExc
    IN  [invoked |-> IF call THEN 1 ELSE 0, arg |-> d.value, raised |-> exc,
         exc |-> IF IsException(exc) THEN NoExc ELSE exc]

\* what _on_message does with payload p: whether it calls the handler, with
\* which argument, and the exception that leaves it given that the handler
\* raises hexc
OnMessageResult(p, hexc) ==
    LET d == Decode(p)
        call == d.exc = NoExc /\ d.kind = "object"
        exc == IF d.exc # NoExc THEN d.exc ELSE IF call THEN hexc ELSE NoExc
    IN  [invoked |-> IF call THEN 1 ELSE 0, arg |-> d.value, raised |-> exc,
         exc |-> IF IsException(exc) THEN NoExc ELSE exc]

\* =============================================== configuration: data model
\* Runtime configs are dicts over three keys; Missing marks a key that is not
\* in the dict, Null a key whose value is None; None itself is not a dict.
HTTP_OK == 200
HTTP_NOT_FOUND == 404
MaxRetries == 5
Missing == "<missing>"
Null == "<null>"
Keys == <<"mqtt_broker", "train_id", "uuid">>
Dict(u, t, b) == [isdict |-> TRUE, uuid |-> u, train_id |-> t, mqtt_broker |-> b]
None == [isdict |-> FALSE, uuid |-> Missing, train_id |-> Missing, mqtt_broker |-> Missing]
In(k, c) == c.isdict /\ c[k] # Missing
Truthy(c) == c.isdict /\ \E i \in 1..Len(Keys) : c[Keys[i]] # Missing

\* ------------------------------------------------- YAML documents and files
\* A document is the sequence of scalars that yaml.safe_dump emits: for each
\* key in sorted order the key and its value, or the flow mapping {} for an
\* empty dict.  A file holds a prefix of a document when the write stopped
\* early; torn marks a last scalar that was cut inside a key.
Tok(kind, text) == [kind |-> kind, text |-> text]
NoFile == [exists |-> FALSE, toks |-> <<>>, torn |-> FALSE]
File(toks, torn) == [exists |-> TRUE, toks |-> toks, torn |-> torn]

RECURSIVE DumpKeys(_, _)
DumpKeys(c, i) ==
    IF i > Len(Keys) THEN <<>>
    ELSE (IF c[Keys[i]] # Missing
          THEN <<Tok("key", Keys[i]), Tok("val", c[Keys[i]])>> ELSE <<>>)
         \o DumpKeys(c, i + 1)

safe_dump(c) == IF Truthy(c) THEN DumpKeys(c, 1) ELSE <<Tok("flow", "{}")>>

RECURSIVE ParseMapping(_, _)
ParseMapping(toks, c) ==
    IF toks = <<>> THEN c
    ELSE ParseMapping(SubSeq(toks, 3, Len(toks)),
                      [c EXCEPT ![toks[1].text] =
                           IF Len(toks) >= 2 THEN toks[2].text ELSE Null])

\* yaml.safe_load: an empty stream is None, a key without a value maps to
\* None, a scalar cut inside a key is a YAMLError
safe_load(file) ==
    IF file.torn THEN [exc |-> "YAMLError", doc |-> None]
    ELSE IF file.toks = <<>> THEN [exc |-> NoExc, doc |-> None]
    ELSE IF file.toks[1].kind = "flow"
         THEN [exc |-> NoExc, doc |-> Dict(Missing, Missing, Missing)]
    ELSE [exc |-> NoExc, doc |-> ParseMapping(file.toks, Dict(Missing, Missing, Missing))]

\* ------------------------------------------------------------ ConfigLoader
ServiceFiles == {"ok", "missing", "yaml_error", "not_dict", "os_error", "not_utf8"}

load_service_config(svc) ==
    CASE svc = "ok" -> NoExc
      [] svc \in {"missing", "yaml_error", "not_dict", "os_error"} -> "ConfigLoadError"
      [] OTHER -> "UnicodeDecodeError"

load_cached_runtime_config(file, readable) ==
    IF ~file.exists THEN None
    ELSE IF ~readable THEN None
    ELSE LET r == safe_load(file)
         IN  IF r.exc # NoExc THEN None
             ELSE IF ~r.doc.isdict THEN None
             ELSE r.doc

\* How a save ends: "ok"; "oserror" with at = -1 when mkdir or open fails, or
\* with at = k when the write fails after k scalars; "crash" when the process
\* stops after k scalars.  open("w") has emptied the file before any write.
SaveEnd(kind, at, torn) == [kind |-> kind, at |-> at, torn |-> torn]
SaveEnds ==
    {SaveEnd("ok", 0, FALSE), SaveEnd("oserror", -1, FALSE)}
    \cup {SaveEnd(k, n, FALSE) : k \in {"oserror", "crash"}, n \in 0..(2 * Len(Keys))}
    \cup {SaveEnd("crash", n, TRUE) : n \in {0, 2}}
CanEnd(c, end) == end.at <= Len(safe_dump(c))

save_runtime_config_Append(file, c, end) ==
    LET doc == safe_dump(c)
    IN  CASE end.kind = "ok" ->
               [file |-> File(file.toks \o doc, FALSE), exc |-> NoExc]
          [] end.kind = "oserror" /\ end.at < 0 ->
               [file |-> file, exc |-> "ConfigLoadError"]
          [] end.kind = "oserror" ->
               [file |-> File(file.toks \o SubSeq(doc, 1, end.at), end.torn),
                exc |-> "ConfigLoadError"]
          [] OTHER ->
               [file |-> File(file.toks \o SubSeq(doc, 1, end.at), end.torn),
                exc |-> "ProcessStopped"]

save_runtime_config(file, c, end) ==
    LET doc == safe_dump(c)
    IN  CASE end.kind = "ok" ->
               [file |-> File(doc, FALSE), exc |-> NoExc]
          [] end.kind = "oserror" /\ end.at < 0 ->
               [file |-> file, exc |-> "ConfigLoadError"]
          [] end.kind = "oserror" ->
               [file |-> File(SubSeq(doc, 1, end.at), end.torn), exc |-> "ConfigLoadError"]
          [] OTHER ->
               [file |-> File(SubSeq(doc, 1, end.at), end.torn), exc |-> "ProcessStopped"]

\* -------------------------------------------------------- CentralAPIClient
\* An answer of the registry: code 0 is a transport error or timeout; json
\* says whether the body is invalid JSON, a JSON value that is no object, or
\* an object (then body holds it).
Resp(code, json, body) == [code |-> code, json |-> json, body |-> body]
Ping(code) == Resp(code, "dict", Dict(Missing, Missing, Missing))

\* client.py:186-199: the retry loop of check_accessibility for a client built
\* with max_retries; ops lists the GETs and the sleeps in the order made
IsAccessible_Any2xx(resp) == resp.code \in 200..299

IsAccessible(resp) == resp.code = HTTP_OK

RECURSIVE Retry(_, _, _)
Retry(script, attempt, max_retries) ==
    IF attempt >= max_retries THEN [ok |-> FALSE, ops |-> <<>>]
    ELSE IF IsAccessible(script[attempt + 1]) THEN [ok |-> TRUE, ops |-> <<"GET">>]
    ELSE LET rest == Retry(script, attempt + 1, max_retries)
             wait == IF attempt < max_retries - 1 THEN <<"sleep">> ELSE <<>>
         IN  [ok |-> rest.ok, ops |-> <<"GET">> \o wait \o rest.ops]

Times(op, ops) == Cardinality({k \in 1..Len(ops) : ops[k] = op})

check_accessibility_n_SleepAfterEach(script, max_retries) ==
    LET r == Retry(script, 0, max_retries)
    IN  IF r.ok THEN r ELSE [r EXCEPT !.ops = Append(@, "sleep")]

check_accessibility_n(script, max_retries) == Retry(script, 0, max_retries)

Attempt(script, attempt) ==
    LET r == Retry(script, attempt, MaxRetries)
    IN  [ok |-> r.ok, gets |-> attempt + Times("GET", r.ops),
         sleeps |-> attempt + Times("sleep", r.ops)]

check_accessibility(script) == Attempt(script, 0)

check_controller_exists_Not404(resp) == resp.code # HTTP_NOT_FOUND

check_controller_exists(resp) == resp.code = HTTP_OK

register_controller(resp) ==
    CASE resp.code = 0 -> [exc |-> "APIRegistrationError", uuid |-> Missing]
      [] resp.code >= 400 -> [exc |-> "APIRegistrationError", uuid |-> Missing]
      [] resp.json = "invalid" -> [exc |-> "APIRegistrationError", uuid |-> Missing]
      [] resp.json = "nondict" -> [exc |-> "AttributeError", uuid |-> Missing]
      [] resp.body.uuid \in {Missing, Null, ""} ->
             [exc |-> "APIRegistrationError", uuid |-> Missing]
      [] OTHER -> [exc |-> NoExc, uuid |-> resp.body.uuid]

download_runtime_config(resp, controller_uuid) ==
    CASE resp.code = 0 -> None
      [] resp.code = HTTP_NOT_FOUND -> None
      [] resp.code >= 400 -> None
      [] resp.json = "invalid" -> None
      [] resp.json = "nondict" -> None
      [] OTHER -> [resp.body EXCEPT !.uuid = controller_uuid]

\* the answers tried
Uuids == {"u1", "u2"}
ProbeScripts ==
    {[i \in 1..MaxRetries |-> Ping(c)] : c \in {0, 200, 204, 503}}
    \cup {[i \in 1..MaxRetries |-> IF i < k THEN Ping(0) ELSE Ping(200)] : k \in {2, MaxRetries}}
ExistsResponses == {Ping(0), Ping(200), Ping(404)}
RegisterResponses ==
    {Resp(0, "invalid", None), Resp(500, "dict", Dict("u1", Missing, Missing)),
     Resp(200, "invalid", None), Resp(200, "nondict", None)}
    \cup {Resp(200, "dict", Dict(u, Missing, Missing)) : u \in Uuids \cup {Missing, Null, ""}}
DownloadBodies ==
    {Dict(Missing, t, b) : t \in {Missing, "t1", "t2"}, b \in {Missing, "b1"}}
    \cup {Dict("u9", "t1", "b1"), Dict(Missing, Null, "b1")}
DownloadResponses ==
    {Resp(0, "invalid", None), Resp(404, "dict", Dict(Missing, Missing, Missing)),
     Resp(500, "dict", Dict(Missing, "t1", "b1")),
     Resp(200, "invalid", None), Resp(200, "nondict", None)}
    \cup {Resp(200, "dict", b) : b \in DownloadBodies}

\* client.py:526-560: the except branch logs and falls off the end of the
\* function, so a request that raises yields None
send_heartbeat(resp) ==
    IF resp.code = 0 THEN "None"
    ELSE IF resp.code = HTTP_OK THEN "True"
    ELSE "False"

\* the answers tried on the client alone
PingAnswers == {Ping(c) : c \in {0, 200, 204, 503}}
ApiProbeScripts == UNION {[1..n -> PingAnswers] : n \in 1..MaxTries}
ApiRegisterResponses ==
    RegisterResponses \cup {Resp(c, "dict", Dict("u1", Missing, Missing)) : c \in {201, 300}}
ApiDownloadResponses ==
    DownloadResponses
    \cup {Resp(c, "dict", Dict(Missing, "t1", "b1")) : c \in {204, 300}}
    \cup {Resp(300, "nondict", None)}
HeartbeatResponses == {Ping(c) : c \in {0, 200, 204, 404, 500}}
NewApiClient(max_retries) ==
    [max_retries |-> max_retries, op |-> "none", arg |-> <<>>, uuid |-> Missing,
     out |-> <<>>, exc |-> NoExc]

\* ------------------------------------------------------------ ConfigManager
is_runtime_config_complete_BrokerOnly(config) == In("mqtt_broker", config)

is_runtime_config_complete(config) == In("train_id", config) /\ In("mqtt_broker", config)

\* the manager's fields and locals during one run of initialize()
NewManager(file) ==
    [service |-> FALSE, cached |-> None, uuid |-> Missing, path |-> "none",
     unknown |-> FALSE, registered |-> Missing, fresh |-> None, saved |-> "none",
     runtime |-> None, exc |-> NoExc, before |-> file, self_runtime_config |-> None]
Event(op, arg) == [op |-> op, arg |-> arg]

\* manager.py:396-405: the service_config property
service_config_property(m) ==
    IF ~m.service THEN [exc |-> "ConfigurationError", set |-> FALSE]
    ELSE [exc |-> NoExc, set |-> TRUE]

\* manager.py:407-410: the runtime_config property reads self._runtime_config,
\* which __init__ sets to None (manager.py:111) and nothing assigns afterwards
runtime_config_property(m) == m.self_runtime_config

FallThrough_AnyPath(m) ==
    IF is_runtime_config_complete(m.cached) THEN m.cached ELSE None

\* what initialize() returns once no fresh config can be returned
\* (manager.py:288-297 on the refresh path, 362-368 after a registration)
FallThrough(m) ==
    IF m.path = "refresh" /\ is_runtime_config_complete(m.cached) THEN m.cached ELSE None

\* ===================================================== message channel
\* A call into paho-mqtt, requests or json either returns a code or raises.
MQTT_ERR_SUCCESS == 0
Returns(code) == [exc |-> NoExc, code |-> code]
Raises(e) == [exc |-> e, code |-> -1]
ChanEvent(op, target, outcome) == [op |-> op, target |-> target, outcome |-> outcome]
Ran(events, exc) == [events |-> events, exc |-> exc]

\* the outcomes tried
ConnackCodes == {0, 3, 5}
SubscribeOutcomes == {Returns(MQTT_ERR_SUCCESS), Returns(4), Raises("ValueError")}
ConnectOutcomes ==
    {Returns(MQTT_ERR_SUCCESS), Raises("ConnectionRefusedError"), Raises("OSError"),
     Raises("ValueError")}
LoopStartOutcomes == {Returns(MQTT_ERR_SUCCESS), Raises("RuntimeError")}
LoopStopOutcomes == {Returns(MQTT_ERR_SUCCESS), Raises("RuntimeError")}
DisconnectOutcomes == {Returns(MQTT_ERR_SUCCESS), Raises("OSError")}
DumpsOutcomes == {NoExc, "TypeError", "ValueError"}
PublishOutcomes ==
    {Returns(MQTT_ERR_SUCCESS), Returns(1), Returns(4), Raises("ValueError")}
PostOutcomes == {Returns(200), Returns(500), Raises("Timeout"), Raises("ConnectionError")}

\* mqtt_client.py:192-250: the subscribe made by the connect callback
on_connect_Always(return_code, sub) ==
    <<ChanEvent("subscribe", "commands_topic", sub)>>

on_connect(return_code, sub) ==
    IF return_code = 0
    THEN <<ChanEvent("subscribe", "commands_topic", sub)>>
    ELSE <<>>

\* mqtt_client.py:340-387: connect, then start the background loop; every
\* exception leaves as MQTTConnectionError
client_start_Swallow(conn, loop_start) ==
    [events |-> <<ChanEvent("connect", "broker", conn)>>, exc |-> NoExc,
     tcp |-> conn.exc = NoExc, loop |-> FALSE]

client_start(conn, loop_start) ==
    IF conn.exc # NoExc
    THEN [events |-> <<ChanEvent("connect", "broker", conn)>>,
          exc |-> "MQTTConnectionError", tcp |-> FALSE, loop |-> FALSE]
    ELSE IF loop_start.exc # NoExc
    THEN [events |-> <<ChanEvent("connect", "broker", conn),
                       ChanEvent("loop_start", "broker", loop_start)>>,
          exc |-> "MQTTConnectionError", tcp |-> TRUE, loop |-> FALSE]
    ELSE [events |-> <<ChanEvent("connect", "broker", conn),
                       ChanEvent("loop_start", "broker", loop_start)>>,
          exc |-> NoExc, tcp |-> TRUE, loop |-> TRUE]

\* mqtt_client.py:389-410: loop_stop, then disconnect, in one try block whose
\* handler only logs
client_stop(loop_stop, disconnect) ==
    IF loop_stop.exc # NoExc
    THEN [events |-> <<ChanEvent("loop_stop", "broker", loop_stop)>>,
          exc |-> NoExc, stopped |-> FALSE, disconnected |-> FALSE]
    ELSE [events |-> <<ChanEvent("loop_stop", "broker", loop_stop),
                       ChanEvent("disconnect", "broker", disconnect)>>,
          exc |-> NoExc, stopped |-> TRUE, disconnected |-> disconnect.exc = NoExc]

\* mqtt_client.py:459-499: json.dumps, client.publish, test of result.rc
publish_to_mqtt(dumps, pub) ==
    IF dumps # NoExc THEN Ran(<<>>, "MQTTPublishError")
    ELSE IF pub.exc # NoExc
    THEN Ran(<<ChanEvent("publish", "status_topic", pub)>>, "MQTTPublishError")
    ELSE IF pub.code = MQTT_ERR_SUCCESS
    THEN Ran(<<ChanEvent("publish", "status_topic", pub)>>, NoExc)
    ELSE Ran(<<ChanEvent("publish", "status_topic", pub)>>, "MQTTPublishError")

\* mqtt_client.py:501-542: one POST; every outcome is only logged
push_to_http_Propagates(post) ==
    Ran(<<ChanEvent("POST", "api/status/update", post)>>, post.exc)

push_to_http(post) ==
    Ran(<<ChanEvent("POST", "api/status/update", post)>>, NoExc)

\* mqtt_client.py:412-457
publish_status(central_api_url, dumps, pub, post) ==
    LET m == publish_to_mqtt(dumps, pub)
    IN  IF m.exc # NoExc THEN m
        ELSE IF central_api_url
        THEN LET h == push_to_http(post) IN Ran(m.events \o h.events, h.exc)
        ELSE m

\* MQTTClient.__init__ (mqtt_client.py:138-190): nothing is connected yet
NoClient ==
    [made |-> FALSE, url |-> FALSE, session |-> "none", loop |-> FALSE, accepted |-> 0,
     started |-> "none"]
NewClient(central_api_url) == [NoClient EXCEPT !.made = TRUE, !.url = central_api_url]
NoCall == [op |-> "none", args |-> <<>>, events |-> <<>>, exc |-> NoExc]
Called(op, args, events, exc) == [op |-> op, args |-> args, events |-> events, exc |-> exc]

\* EdgeControllerApp.__init__ (main.py:121-131) and what initialize() saw
NewApp(pc) ==
    [pc |-> pc, config |-> "none", hardware_controller |-> FALSE, mqtt_client |-> FALSE,
     started |-> "none", result |-> "none"]
ConfigOutcomes ==
    {"ConfigurationError", "UnicodeDecodeError", "AttributeError",
     "absent", "present", "broker_not_dict"}
HardwareOutcomes == {"hat", "hat_fails", "simulator"}

\* ============================================================= the registry
\* The central API keeps edge controllers and trains in two tables; train
\* rows are read back in the order they were inserted.
\* Rows are [id, name] for a controller and [id, edge_controller_id] for a
\* train.
NoRegistry == [edge_controllers |-> {}, trains |-> <<>>]

\* config_manager.py:382-417 with config_repository.py:361-377: None when
\* there is no such row, else the controller with its train rows
get_edge_controller(reg, edge_controller_id) ==
    LET Mine(row) == row.edge_controller_id = edge_controller_id
    IN  IF \E ec \in reg.edge_controllers : ec.id = edge_controller_id
        THEN [found |-> TRUE, trains |-> SelectSeq(reg.trains, Mine)]
        ELSE [found |-> FALSE, trains |-> <<>>]

\* routers/config.py:260-271
ping_controller(reg, controller_id) ==
    IF get_edge_controller(reg, controller_id).found THEN Ping(HTTP_OK)
    ELSE Ping(HTTP_NOT_FOUND)

\* routers/config.py:274-309: a known hostname gets its uuid back, a new one
\* gets new_uuid (uuid4)
api_register_controller(reg, name, new_uuid) ==
    IF \E ec \in reg.edge_controllers : ec.name = name
    THEN LET ec == CHOOSE e \in reg.edge_controllers : e.name = name
         IN  [registry |-> reg, resp |-> Resp(HTTP_OK, "dict", Dict(ec.id, Missing, Missing))]
    ELSE [registry |-> [reg EXCEPT !.edge_controllers = @ \cup {[id |-> new_uuid, name |-> name]}],
          resp |-> Resp(HTTP_OK, "dict", Dict(new_uuid, Missing, Missing))]

\* routers/config.py:312-415 with reassign false (config_manager.py:188-270):
\* 400 for an unknown controller; a train that exists is handed back as it is
register_train_for_controller(reg, controller_uuid, train_id) ==
    IF ~get_edge_controller(reg, controller_uuid).found
    THEN [registry |-> reg, code |-> 400]
    ELSE IF \E k \in 1..Len(reg.trains) : reg.trains[k].id = train_id
    THEN [registry |-> reg, code |-> 201]
    ELSE [registry |->
              [reg EXCEPT !.trains =
                   Append(@, [id |-> train_id, edge_controller_id |-> controller_uuid])],
          code |-> 201]

\* routers/config.py:495-542
get_controller_runtime_config(reg, uuid) ==
    LET ec == get_edge_controller(reg, uuid)
    IN  IF ~ec.found
        THEN Resp(HTTP_NOT_FOUND, "dict", Dict(Missing, Missing, Missing))
        ELSE Resp(HTTP_OK, "dict",
                  Dict(uuid, IF ec.trains # <<>> THEN ec.trains[1].id ELSE "default_train",
                       "b1"))

\* a request gets its answer, fails in transport (connection error or
\* timeout), or is answered with a server error
Nets == {"ok", "timeout", "server_error"}
Over(net, resp) ==
    CASE net = "ok" -> resp
      [] net = "timeout" -> Resp(0, "invalid", None)
      [] OTHER -> Resp(500, "dict", Dict(Missing, Missing, Missing))

\* the controller process: position, cached runtime config, and what this
\* run has obtained
NoAnswer == [asked |-> FALSE, ec |-> [found |-> FALSE, trains |-> <<>>],
               resp |-> Resp(0, "invalid", None)]
NewController(pc, cache) ==
    [pc |-> pc, cache |-> cache, path |-> "none", cached |-> None, uuid |-> Missing,
     exists |-> NoAnswer, posted |-> FALSE, download |-> NoAnswer, runtime |-> None,
     channel |-> FALSE, tick |-> 0]


\* ------------------------------------------------------------------- state
VARIABLES
    loopAvailable,  \* asyncio.get_event_loop() finds the loop in the handler's thread
    handler,        \* command_handler given to MQTTClient: "app" or a raising "stub"
    train_speed,    \* train_status["speed"]
    hw,             \* DCMotorHatController state
    speed_task,     \* self.speed_task: id of the latest ramp, 0 for None
    tasks,          \* ramp tasks by id
    ready,          \* the event loop's queue of ready callbacks
    nCmds,          \* messages received so far
    act,            \* the step just taken
    calls,          \* driver calls made by the step just taken
    pubs,           \* snapshots handed to publish_status by the step just taken
    lastPub,        \* the last snapshot handed to publish_status, and by whom
    msg,            \* the message just handled: payload, handler calls, exceptions
    lastSched,      \* the ramp scheduled by the last command handled, 0 if none
    faulted,        \* an exception has been raised on the command path
    held,           \* the last stop, start or setSpeed command was a stop that was executed
    cfgpc,          \* where the run of ConfigManager.initialize() stands
    cacheFile,      \* the cached runtime-config file (edge-controller.yaml)
    mgr,            \* the manager's fields and locals in this run
    io,             \* file reads, file writes and HTTP requests of this run, in order
    boots,          \* process starts so far
    app,            \* EdgeControllerApp: position in initialize(), fields, result
    chan,           \* MQTTClient: fallback URL, session with the broker, loop thread
    last,           \* the last call into MQTTClient: inputs, broker and HTTP operations
    chanOps,        \* channel operations so far
    api,            \* CentralAPIClient: max_retries and the last call made
    registry,       \* the central API's tables: edge controllers and trains
    ctl             \* one controller process run against that registry

vars == <<loopAvailable, handler, train_speed, hw, speed_task, tasks, ready, nCmds,
          act, calls, pubs, lastPub, msg, lastSched, faulted, held,
          cfgpc, cacheFile, mgr, io, boots, app, chan, last, chanOps, api, registry, ctl>>

TaskIds == 1..MaxCmds
NoPub == [speed |-> NoArg, direction |-> "none", by |-> 0]
NoMsg == [payload |-> Payload(FALSE, FALSE, "none", NoCommand), invoked |-> 0,
          arg |-> NoCommand, raised |-> NoExc, escaped |-> NoExc,
          hraised |-> NoExc, hexc |-> NoExc, sched |-> 0]
Act(kind, i, raised, left) == [kind |-> kind, task |-> i, raised |-> raised, left |-> left]

\* the command path before any message has arrived
Idle ==
    /\ train_speed = 0
    /\ hw = InitHw
    /\ speed_task = 0
    /\ tasks = [i \in TaskIds |-> NoTask]
    /\ ready = <<>>
    /\ nCmds = 0
    /\ act = Act("init", 0, NoExc, NoExc)
    /\ calls = <<>>
    /\ pubs = <<>>
    /\ lastPub = NoPub
    /\ msg = NoMsg
    /\ lastSched = 0
    /\ faulted = FALSE
    /\ held = FALSE

\* configuration, channel and API client when they are not under study
CfgIdle ==
    /\ cfgpc = "returned"
    /\ cacheFile = NoFile
    /\ mgr = NewManager(NoFile)
    /\ io = <<>>
    /\ boots = 1
ChanIdle ==
    /\ app = NewApp("off")
    /\ chan = NoClient
    /\ last = NoCall
    /\ chanOps = 0
ApiIdle == api = NewApiClient(MaxRetries)
RegIdle ==
    /\ registry = NoRegistry
    /\ ctl = NewController("off", None)

Init ==
    /\ loopAvailable \in BOOLEAN
    /\ handler \in {"app", "stub"}
    /\ Idle
    /\ CfgIdle
    /\ ChanIdle
    /\ ApiIdle
    /\ RegIdle

Record(o, by) ==
    /\ calls' = o.calls
    /\ pubs' = o.pubs
    /\ lastPub' = IF o.pubs = <<>> THEN lastPub
                  ELSE [speed |-> o.pubs[Len(o.pubs)].speed,
                        direction |-> o.pubs[Len(o.pubs)].direction, by |-> by]

\* a message arrives on the commands topic
OnMessage(p, failAt, sent) ==
    /\ nCmds < MaxCmds
    /\ nCmds' = nCmds + 1
    /\ LET S == State(train_speed, hw, speed_task, tasks, ready, loopAvailable)
           pre == OnMessageResult(p, NoExc)
           h == IF handler = "app"
                THEN HandleCommand(pre.arg, S, nCmds + 1, failAt, sent)
                ELSE Handled(S, Outcome(hw, <<>>, <<>>, "HandlerError", "HandlerError"), 0)
           res == OnMessageResult(p, h.exc)
       IN  IF pre.invoked = 1
           THEN /\ train_speed' = h.S.train_speed
                /\ hw' = h.S.hw
                /\ speed_task' = h.S.speed_task
                /\ tasks' = h.S.tasks
                /\ ready' = h.S.ready
                /\ Record(h, 0)
                /\ msg' = [payload |-> p, invoked |-> res.invoked, arg |-> res.arg,
                           raised |-> res.raised, escaped |-> res.exc,
                           hraised |-> h.raised, hexc |-> h.exc, sched |-> h.sched]
                /\ lastSched' = IF handler = "app" THEN h.sched ELSE lastSched
                /\ held' = IF handler = "app" THEN Holds(pre.arg, h.raised, held) ELSE held
           ELSE /\ UNCHANGED <<train_speed, hw, speed_task, tasks, ready, lastPub,
                             lastSched, held>>
                /\ calls' = <<>>
                /\ pubs' = <<>>
                /\ msg' = [payload |-> p, invoked |-> 0, arg |-> NoCommand,
                           raised |-> res.raised, escaped |-> res.exc,
                           hraised |-> NoExc, hexc |-> NoExc, sched |-> 0]
    /\ act' = Act("message", 0, msg'.raised, msg'.escaped)
    /\ faulted' = (faulted \/ msg'.raised # NoExc \/ msg'.hraised # NoExc)
    /\ UNCHANGED <<loopAvailable, handler>>
    /\ UNCHANGED <<cfgpc, cacheFile, mgr, io, boots, app, chan, last, chanOps, api, registry, ctl>>

\* the loop runs the callback queued by run_coroutine_threadsafe
RunCreate ==
    /\ ready # <<>> /\ Head(ready).type = "create"
    /\ LET i == Head(ready).task
           r1 == Append(Tail(ready), Item("step", i))
       IN  /\ tasks' = [tasks EXCEPT ![i].st = "ready"]
           /\ ready' = IF tasks[i].cfCancelled THEN Append(r1, Item("cancel", i)) ELSE r1
           /\ act' = Act("create", i, NoExc, NoExc)
    /\ calls' = <<>> /\ pubs' = <<>>
    /\ msg' = NoMsg
    /\ UNCHANGED <<loopAvailable, handler, train_speed, hw, speed_task, nCmds, lastPub,
                   lastSched, faulted, held>>
    /\ UNCHANGED <<cfgpc, cacheFile, mgr, io, boots, app, chan, last, chanOps, api, registry, ctl>>

\* the loop runs the forwarded cancel request
RunCancel ==
    /\ ready # <<>> /\ Head(ready).type = "cancel"
    /\ LET i == Head(ready).task
       IN  /\ tasks' = [tasks EXCEPT ![i] = TaskCancel(tasks[i])]
           /\ ready' = IF tasks[i].st = "sleeping"
                       THEN Append(Tail(ready), Item("step", i)) ELSE Tail(ready)
           /\ act' = Act("cancel", i, NoExc, NoExc)
    /\ calls' = <<>> /\ pubs' = <<>>
    /\ msg' = NoMsg
    /\ UNCHANGED <<loopAvailable, handler, train_speed, hw, speed_task, nCmds, lastPub,
                   lastSched, faulted, held>>
    /\ UNCHANGED <<cfgpc, cacheFile, mgr, io, boots, app, chan, last, chanOps, api, registry, ctl>>

\* the loop runs a step of a ramp task
RunStep(fail, sent) ==
    /\ ready # <<>> /\ Head(ready).type = "step"
    /\ LET i == Head(ready).task
           b == HandleSpeedCommand(tasks[i], train_speed, hw, fail, sent)
       IN  /\ tasks' = [tasks EXCEPT ![i] = b.task]
           /\ train_speed' = b.train_speed
           /\ hw' = b.o.hw
           /\ Record(b.o, i)
           /\ act' = Act("step", i, b.o.raised, b.o.exc)
           /\ faulted' = (faulted \/ b.o.raised # NoExc)
    /\ ready' = Tail(ready)
    /\ msg' = NoMsg
    /\ UNCHANGED <<loopAvailable, handler, speed_task, nCmds, lastSched, held>>
    /\ UNCHANGED <<cfgpc, cacheFile, mgr, io, boots, app, chan, last, chanOps, api, registry, ctl>>

\* the timer of a sleeping task fires
TimerFire(i) ==
    /\ tasks[i].st = "sleeping"
    /\ tasks' = [tasks EXCEPT ![i].st = "woken"]
    /\ ready' = Append(ready, Item("step", i))
    /\ act' = Act("timer", i, NoExc, NoExc)
    /\ calls' = <<>> /\ pubs' = <<>>
    /\ msg' = NoMsg
    /\ UNCHANGED <<loopAvailable, handler, train_speed, hw, speed_task, nCmds, lastPub,
                   lastSched, faulted, held>>
    /\ UNCHANGED <<cfgpc, cacheFile, mgr, io, boots, app, chan, last, chanOps, api, registry, ctl>>

Next ==
    \/ \E p \in Payloads, failAt \in 0..2, sent \in BOOLEAN : OnMessage(p, failAt, sent)
    \/ RunCreate
    \/ RunCancel
    \/ \E fail \in BOOLEAN, sent \in BOOLEAN : RunStep(fail, sent)
    \/ \E i \in TaskIds : TimerFire(i)

Spec == Init /\ [][Next]_vars

\* ========================================== configuration: initialize()
cfgvars == <<cfgpc, cacheFile, mgr, io, boots>>
appvars == <<loopAvailable, handler, train_speed, hw, speed_task, tasks, ready, nCmds,
             act, calls, pubs, lastPub, msg, lastSched, faulted, held>>

\* manager.py:150-157: load the service config
LoadServiceConfig(svc) ==
    /\ cfgpc = "boot"
    /\ LET e == load_service_config(svc)
       IN  /\ io' = Append(io, Event("load_service", svc))
           /\ IF e = NoExc
              THEN /\ mgr' = [mgr EXCEPT !.service = TRUE]
                   /\ cfgpc' = "probe"
              ELSE /\ mgr' = [mgr EXCEPT !.exc = IF e = "ConfigLoadError"
                                                 THEN "ConfigurationError" ELSE e]
                   /\ cfgpc' = "raised"
    /\ UNCHANGED <<cacheFile, boots>>
    /\ UNCHANGED <<appvars, app, chan, last, chanOps, api, registry, ctl>>

\* manager.py:159-170: probe the registry
CheckAccessibility(script) ==
    /\ cfgpc = "probe"
    /\ LET r == check_accessibility(script)
       IN  /\ io' = io \o [i \in 1..r.gets |-> Event("GET_ping", "")]
           /\ cfgpc' = IF r.ok THEN "online" ELSE "offline"
    /\ UNCHANGED <<cacheFile, mgr, boots>>
    /\ UNCHANGED <<appvars, app, chan, last, chanOps, api, registry, ctl>>

\* manager.py:184-220: the offline path
UseCachedConfigFallback(readable) ==
    /\ cfgpc = "offline"
    /\ LET runtime_config == load_cached_runtime_config(cacheFile, readable)
       IN  /\ io' = Append(io, Event("load_cache", ""))
           /\ IF Truthy(runtime_config)
              THEN /\ mgr' = [mgr EXCEPT !.path = "offline", !.cached = runtime_config,
                                         !.runtime = runtime_config]
                   /\ cfgpc' = "returned"
              ELSE /\ mgr' = [mgr EXCEPT !.path = "offline", !.cached = runtime_config,
                                         !.exc = "ConfigurationError"]
                   /\ cfgpc' = "raised"
    /\ UNCHANGED <<cacheFile, boots>>
    /\ UNCHANGED <<appvars, app, chan, last, chanOps, api, registry, ctl>>

LoadCachedConfig_Skipped(readable) ==
    /\ cfgpc = "online"
    /\ readable
    /\ io' = io
    /\ mgr' = [mgr EXCEPT !.path = "new"]
    /\ cfgpc' = "register"
    /\ UNCHANGED <<cacheFile, boots>>
    /\ UNCHANGED <<appvars, app, chan, last, chanOps, api, registry, ctl>>

\* manager.py:172-182 and 258-260: the online path reads the cache
LoadCachedConfig(readable) ==
    /\ cfgpc = "online"
    /\ LET cached_config == load_cached_runtime_config(cacheFile, readable)
       IN  /\ io' = Append(io, Event("load_cache", ""))
           /\ IF Truthy(cached_config) /\ In("uuid", cached_config)
              THEN /\ mgr' = [mgr EXCEPT !.cached = cached_config, !.path = "refresh",
                                         !.uuid = cached_config.uuid]
                   /\ cfgpc' = "exists"
              ELSE /\ mgr' = [mgr EXCEPT !.cached = cached_config, !.path = "new"]
                   /\ cfgpc' = "register"
    /\ UNCHANGED <<cacheFile, boots>>
    /\ UNCHANGED <<appvars, app, chan, last, chanOps, api, registry, ctl>>

RefreshExistingController_KeepsUuid(resp) ==
    /\ cfgpc = "exists"
    /\ io' = Append(io, Event("GET_controller_ping", mgr.uuid))
    /\ cfgpc' = "download"
    /\ mgr' = IF check_controller_exists(resp) THEN mgr ELSE [mgr EXCEPT !.unknown = TRUE]
    /\ UNCHANGED <<cacheFile, boots>>
    /\ UNCHANGED <<appvars, app, chan, last, chanOps, api, registry, ctl>>

\* manager.py:262-270: is the cached uuid still registered
RefreshExistingController(resp) ==
    /\ cfgpc = "exists"
    /\ io' = Append(io, Event("GET_controller_ping", mgr.uuid))
    /\ IF check_controller_exists(resp)
       THEN /\ cfgpc' = "download"
            /\ mgr' = mgr
       ELSE /\ cfgpc' = "register"
            /\ mgr' = [mgr EXCEPT !.unknown = TRUE, !.path = "new"]
    /\ UNCHANGED <<cacheFile, boots>>
    /\ UNCHANGED <<appvars, app, chan, last, chanOps, api, registry, ctl>>

\* manager.py:336-344: register as a new controller
RegisterNewController(resp) ==
    /\ cfgpc = "register"
    /\ io' = Append(io, Event("POST_register", ""))
    /\ LET r == register_controller(resp)
       IN  IF r.exc = NoExc
           THEN /\ mgr' = [mgr EXCEPT !.uuid = r.uuid, !.registered = r.uuid]
                /\ cfgpc' = "download"
           ELSE /\ mgr' = [mgr EXCEPT !.exc = IF r.exc = "APIRegistrationError"
                                              THEN "ConfigurationError" ELSE r.exc]
                /\ cfgpc' = "raised"
    /\ UNCHANGED <<cacheFile, boots>>
    /\ UNCHANGED <<appvars, app, chan, last, chanOps, api, registry, ctl>>

\* manager.py:272-277 and 346-351: download the runtime config
DownloadRuntimeConfig(resp) ==
    /\ cfgpc = "download"
    /\ io' = Append(io, Event("GET_config", mgr.uuid))
    /\ LET fresh_config == download_runtime_config(resp, mgr.uuid)
       IN  IF Truthy(fresh_config)
           THEN /\ mgr' = [mgr EXCEPT !.fresh = fresh_config]
                /\ cfgpc' = "save"
           ELSE /\ mgr' = [mgr EXCEPT !.runtime = FallThrough(mgr)]
                /\ cfgpc' = "returned"
    /\ UNCHANGED <<cacheFile, boots>>
    /\ UNCHANGED <<appvars, app, chan, last, chanOps, api, registry, ctl>>

\* manager.py:278-297 and 352-368: persist the fresh config and return
SaveRuntimeConfig(end) ==
    /\ cfgpc = "save"
    /\ CanEnd(mgr.fresh, end)
    /\ LET r == save_runtime_config(cacheFile, mgr.fresh, end)
       IN  /\ cacheFile' = r.file
           /\ io' = Append(io, Event("save", end.kind))
           /\ CASE r.exc = NoExc ->
                     /\ mgr' = [mgr EXCEPT !.saved = "ok", !.runtime = mgr.fresh]
                     /\ cfgpc' = "returned"
                [] r.exc = "ConfigLoadError" ->
                     /\ mgr' = [mgr EXCEPT !.saved = "failed", !.runtime = FallThrough(mgr)]
                     /\ cfgpc' = "returned"
                [] OTHER ->
                     /\ mgr' = [mgr EXCEPT !.saved = "stopped"]
                     /\ cfgpc' = "stopped"
    /\ UNCHANGED boots
    /\ UNCHANGED <<appvars, app, chan, last, chanOps, api, registry, ctl>>

\* main.py:559-572: the process is started again; initialize() runs once per start
Restart ==
    /\ cfgpc \in {"returned", "raised", "stopped"}
    /\ boots < MaxBoots
    /\ boots' = boots + 1
    /\ cfgpc' = "boot"
    /\ mgr' = NewManager(cacheFile)
    /\ io' = <<>>
    /\ UNCHANGED cacheFile
    /\ UNCHANGED <<appvars, app, chan, last, chanOps, api, registry, ctl>>

CfgInit ==
    /\ loopAvailable = FALSE
    /\ handler = "app"
    /\ Idle
    /\ cfgpc = "boot"
    /\ cacheFile = NoFile
    /\ mgr = NewManager(NoFile)
    /\ io = <<>>
    /\ boots = 1
    /\ ChanIdle
    /\ ApiIdle
    /\ RegIdle

CfgNext ==
    \/ \E svc \in ServiceFiles : LoadServiceConfig(svc)
    \/ \E script \in ProbeScripts : CheckAccessibility(script)
    \/ \E readable \in BOOLEAN : UseCachedConfigFallback(readable)
    \/ \E readable \in BOOLEAN : LoadCachedConfig(readable)
    \/ \E resp \in ExistsResponses : RefreshExistingController(resp)
    \/ \E resp \in RegisterResponses : RegisterNewController(resp)
    \/ \E resp \in DownloadResponses : DownloadRuntimeConfig(resp)
    \/ \E end \in SaveEnds : SaveRuntimeConfig(end)
    \/ Restart

CfgSpec == CfgInit /\ [][CfgNext]_vars

\* ================================== message channel: start-up and session
\* The channel is studied either as EdgeControllerApp.initialize() builds it
\* (app.pc from "init") or as an MQTTClient constructed on its own
\* (app.pc = "unit"), with or without a fallback URL.
ChanInit ==
    /\ loopAvailable = FALSE
    /\ handler = "app"
    /\ Idle
    /\ CfgIdle
    /\ ApiIdle
    /\ RegIdle
    /\ \/ app = NewApp("init") /\ chan = NoClient
       \/ app = NewApp("unit") /\ chan \in {NewClient(u) : u \in BOOLEAN}
    /\ last = NoCall
    /\ chanOps = 0

IsMQTTClientError(e) == e \in {"MQTTClientError", "MQTTConnectionError", "MQTTPublishError"}

\* main.py:146-199: configuration, then the runtime config's fields
AppConfigure(outcome) ==
    /\ app.pc = "init"
    /\ app' = CASE outcome = "ConfigurationError" ->
                       [app EXCEPT !.pc = "done", !.config = outcome, !.result = "False"]
                [] outcome \in {"UnicodeDecodeError", "AttributeError"} ->
                       [app EXCEPT !.pc = "done", !.config = outcome, !.result = outcome]
                [] outcome = "absent" ->
                       [app EXCEPT !.pc = "done", !.config = outcome, !.result = "True"]
                [] outcome = "broker_not_dict" ->
                       [app EXCEPT !.pc = "done", !.config = outcome,
                                   !.result = "AttributeError"]
                [] OTHER -> [app EXCEPT !.pc = "hardware", !.config = outcome]
    /\ UNCHANGED <<chan, last, chanOps>>
    /\ UNCHANGED <<appvars, cfgvars, api, registry, ctl>>

\* main.py:201-217: the driver
AppCreateDriver(hardware) ==
    /\ app.pc = "hardware"
    /\ app' = IF hardware = "hat_fails"
              THEN [app EXCEPT !.pc = "done", !.result = "False"]
              ELSE [app EXCEPT !.pc = "mqtt", !.hardware_controller = TRUE]
    /\ UNCHANGED <<chan, last, chanOps>>
    /\ UNCHANGED <<appvars, cfgvars, api, registry, ctl>>

\* main.py:219-261: construct the MQTTClient and start it
AppStartChannel(conn, loop_start) ==
    /\ app.pc = "mqtt"
    /\ LET r == client_start(conn, loop_start)
       IN  /\ chan' = [NewClient(TRUE) EXCEPT !.session = IF r.tcp THEN "tcp" ELSE "none",
                                              !.loop = r.loop,
                                              !.started = IF r.exc = NoExc THEN "ok"
                                                          ELSE r.exc]
           /\ last' = Called("start", [conn |-> conn, loop_start |-> loop_start],
                             r.events, r.exc)
           /\ app' = [app EXCEPT !.pc = "done", !.mqtt_client = TRUE,
                                 !.started = IF r.exc = NoExc THEN "ok" ELSE r.exc,
                                 !.result = IF r.exc = NoExc THEN "True"
                                            ELSE IF IsMQTTClientError(r.exc) THEN "False"
                                            ELSE r.exc]
    /\ UNCHANGED chanOps
    /\ UNCHANGED <<appvars, cfgvars, api, registry, ctl>>

\* the channel is in use: constructed on its own, or by an initialize() that
\* returned true
InUse == chan.made /\ (app.pc = "unit" \/ (app.pc = "done" /\ app.result = "True"))

\* mqtt_client.py:340-387 called on a client constructed on its own
ClientStart(conn, loop_start) ==
    /\ app.pc = "unit"
    /\ InUse
    /\ ~chan.loop
    /\ chanOps < MaxOps
    /\ LET r == client_start(conn, loop_start)
       IN  /\ chan' = [chan EXCEPT !.session = IF r.tcp THEN "tcp" ELSE "none",
                                   !.loop = r.loop,
                                   !.started = IF r.exc = NoExc THEN "ok" ELSE r.exc]
           /\ last' = Called("start", [conn |-> conn, loop_start |-> loop_start],
                             r.events, r.exc)
    /\ chanOps' = chanOps + 1
    /\ UNCHANGED app
    /\ UNCHANGED <<appvars, cfgvars, api, registry, ctl>>

\* mqtt_client.py:192-250: the background loop delivers a connect
\* acknowledgement; after a refusal it connects again
OnConnect(return_code, sub) ==
    /\ chan.loop
    /\ chan.session = "tcp"
    /\ chanOps < MaxOps
    /\ chan' = IF return_code = 0
               THEN [chan EXCEPT !.session = "connected", !.accepted = @ + 1]
               ELSE chan
    /\ last' = Called("_on_connect", [return_code |-> return_code, sub |-> sub],
                      on_connect(return_code, sub), NoExc)
    /\ chanOps' = chanOps + 1
    /\ UNCHANGED app
    /\ UNCHANGED <<appvars, cfgvars, api, registry, ctl>>

\* mqtt_client.py:315-338: the connection is lost; the background loop
\* connects again
OnDisconnect(return_code) ==
    /\ chan.loop
    /\ chan.session = "connected"
    /\ chanOps < MaxOps
    /\ chan' = [chan EXCEPT !.session = "tcp"]
    /\ last' = Called("_on_disconnect", [return_code |-> return_code], <<>>, NoExc)
    /\ chanOps' = chanOps + 1
    /\ UNCHANGED app
    /\ UNCHANGED <<appvars, cfgvars, api, registry, ctl>>

\* mqtt_client.py:412-457; without a socket paho's publish does not succeed
PublishStatus(dumps, pub, post) ==
    /\ InUse
    /\ chanOps < MaxOps
    /\ chan.session \in {"none", "closed"} => pub # Returns(MQTT_ERR_SUCCESS)
    /\ LET r == publish_status(chan.url, dumps, pub, post)
       IN  last' = Called("publish_status", [dumps |-> dumps, pub |-> pub, post |-> post],
                          r.events, r.exc)
    /\ chanOps' = chanOps + 1
    /\ UNCHANGED <<app, chan>>
    /\ UNCHANGED <<appvars, cfgvars, api, registry, ctl>>

\* mqtt_client.py:389-410
Stop(loop_stop, disconnect) ==
    /\ InUse
    /\ chanOps < MaxOps
    /\ LET r == client_stop(loop_stop, disconnect)
       IN  /\ chan' = [chan EXCEPT !.loop = IF r.stopped THEN FALSE ELSE @,
                                   !.session = IF r.disconnected /\ @ # "none"
                                               THEN "closed" ELSE @]
           /\ last' = Called("stop", [loop_stop |-> loop_stop, disconnect |-> disconnect],
                             r.events, r.exc)
    /\ chanOps' = chanOps + 1
    /\ UNCHANGED app
    /\ UNCHANGED <<appvars, cfgvars, api, registry, ctl>>

ChanNext ==
    \/ \E outcome \in ConfigOutcomes : AppConfigure(outcome)
    \/ \E hardware \in HardwareOutcomes : AppCreateDriver(hardware)
    \/ \E conn \in ConnectOutcomes, ls \in LoopStartOutcomes : AppStartChannel(conn, ls)
    \/ \E conn \in ConnectOutcomes, ls \in LoopStartOutcomes : ClientStart(conn, ls)
    \/ \E rc \in ConnackCodes, sub \in SubscribeOutcomes : OnConnect(rc, sub)
    \/ \E rc \in {1, 7} : OnDisconnect(rc)
    \/ \E dumps \in DumpsOutcomes, pub \in PublishOutcomes, post \in PostOutcomes :
           PublishStatus(dumps, pub, post)
    \/ \E ls \in LoopStopOutcomes, dc \in DisconnectOutcomes : Stop(ls, dc)

ChanSpec == ChanInit /\ [][ChanNext]_vars

\* ======================================== CentralAPIClient on its own
\* client.py:123-152: a client built with max_retries; it keeps no state
\* between calls, api holds the last call and what it gave
ApiInit ==
    /\ loopAvailable = FALSE
    /\ handler = "app"
    /\ Idle
    /\ CfgIdle
    /\ ChanIdle
    /\ RegIdle
    /\ api \in {NewApiClient(n) : n \in 1..MaxTries}

\* client.py:154-203
ApiCheckAccessibility(script) ==
    /\ Len(script) = api.max_retries
    /\ api' = [api EXCEPT !.op = "check_accessibility", !.arg = script, !.uuid = Missing,
                          !.out = check_accessibility_n(script, api.max_retries),
                          !.exc = NoExc]
    /\ UNCHANGED <<appvars, cfgvars, app, chan, last, chanOps, registry, ctl>>

\* client.py:235-310
ApiRegisterController(resp) ==
    /\ LET r == register_controller(resp)
       IN  api' = [api EXCEPT !.op = "register_controller", !.arg = resp, !.uuid = Missing,
                              !.out = r.uuid, !.exc = r.exc]
    /\ UNCHANGED <<appvars, cfgvars, app, chan, last, chanOps, registry, ctl>>

\* client.py:410-474
ApiDownloadRuntimeConfig(resp, controller_uuid) ==
    /\ api' = [api EXCEPT !.op = "download_runtime_config", !.arg = resp,
                          !.uuid = controller_uuid,
                          !.out = download_runtime_config(resp, controller_uuid),
                          !.exc = NoExc]
    /\ UNCHANGED <<appvars, cfgvars, app, chan, last, chanOps, registry, ctl>>

\* client.py:476-560
ApiSendHeartbeat(resp) ==
    /\ api' = [api EXCEPT !.op = "send_heartbeat", !.arg = resp, !.uuid = Missing,
                          !.out = send_heartbeat(resp), !.exc = NoExc]
    /\ UNCHANGED <<appvars, cfgvars, app, chan, last, chanOps, registry, ctl>>

ApiNext ==
    \/ \E script \in ApiProbeScripts : ApiCheckAccessibility(script)
    \/ \E resp \in ApiRegisterResponses : ApiRegisterController(resp)
    \/ \E resp \in ApiDownloadResponses, u \in Uuids : ApiDownloadRuntimeConfig(resp, u)
    \/ \E resp \in HeartbeatResponses : ApiSendHeartbeat(resp)

ApiSpec == ApiInit /\ [][ApiNext]_vars

\* ==================================== a controller process and the registry
\* One controller host is started against the central API; an administrator
\* registers trains for controllers at any time.  A request gets its
\* answer or fails (Nets).  The cache is the runtime config the file holds; a
\* controller may come with a cache written against an earlier database.
RegInit ==
    /\ loopAvailable = FALSE
    /\ handler = "app"
    /\ Idle
    /\ CfgIdle
    /\ ChanIdle
    /\ ApiIdle
    /\ registry = NoRegistry
    /\ ctl \in {NewController("boot", c) : c \in {None, Dict("u1", "t1", "b1")}}

\* manager.py:150-220: the probe, then the cache on either path
CtlBoot(online) ==
    /\ ctl.pc = "boot"
    /\ ctl' = IF online
              THEN IF Truthy(ctl.cache) /\ In("uuid", ctl.cache)
                   THEN [ctl EXCEPT !.pc = "exists", !.path = "refresh",
                                    !.cached = ctl.cache, !.uuid = ctl.cache.uuid]
                   ELSE [ctl EXCEPT !.pc = "register", !.path = "new", !.cached = ctl.cache]
              ELSE IF Truthy(ctl.cache)
                   THEN [ctl EXCEPT !.pc = "app", !.path = "offline", !.cached = ctl.cache,
                                    !.runtime = ctl.cache]
                   ELSE [ctl EXCEPT !.pc = "exit", !.path = "offline"]
    /\ UNCHANGED registry
    /\ UNCHANGED <<appvars, cfgvars, app, chan, last, chanOps, api>>

\* manager.py:262-270 against routers/config.py:260-271
CtlCheckExists(net) ==
    /\ ctl.pc = "exists"
    /\ LET resp == Over(net, ping_controller(registry, ctl.uuid))
           seen == [asked |-> TRUE, ec |-> get_edge_controller(registry, ctl.uuid),
                    resp |-> resp]
       IN  ctl' = IF check_controller_exists(resp)
                  THEN [ctl EXCEPT !.pc = "download", !.exists = seen]
                  ELSE [ctl EXCEPT !.pc = "register", !.path = "new", !.exists = seen]
    /\ UNCHANGED registry
    /\ UNCHANGED <<appvars, cfgvars, app, chan, last, chanOps, api>>

\* manager.py:336-344 against routers/config.py:274-309
CtlRegister(net, name, new_uuid) ==
    /\ ctl.pc = "register"
    /\ \A ec \in registry.edge_controllers : ec.id # new_uuid
    /\ LET a == api_register_controller(registry, name, new_uuid)
           r == register_controller(Over(net, a.resp))
       IN  /\ registry' = IF net = "ok" THEN a.registry ELSE registry
           /\ ctl' = IF r.exc = NoExc
                     THEN [ctl EXCEPT !.pc = "download", !.uuid = r.uuid, !.posted = TRUE]
                     ELSE [ctl EXCEPT !.pc = "exit", !.posted = TRUE]
    /\ UNCHANGED <<appvars, cfgvars, app, chan, last, chanOps, api>>

\* manager.py:272-297 and 346-368 against routers/config.py:495-542; saved
\* FALSE is a save that fails with OSError
CtlDownload(net, saved) ==
    /\ ctl.pc = "download"
    /\ LET resp == Over(net, get_controller_runtime_config(registry, ctl.uuid))
           fresh_config == download_runtime_config(resp, ctl.uuid)
           seen == [asked |-> net = "ok", ec |-> get_edge_controller(registry, ctl.uuid),
                    resp |-> resp]
       IN  ctl' = IF Truthy(fresh_config) /\ saved
                  THEN [ctl EXCEPT !.pc = "app", !.download = seen,
                                   !.cache = fresh_config, !.runtime = fresh_config]
                  ELSE [ctl EXCEPT !.pc = "app", !.download = seen,
                                   !.runtime = FallThrough(ctl)]
    /\ UNCHANGED registry
    /\ UNCHANGED <<appvars, cfgvars, app, chan, last, chanOps, api>>

\* main.py:146-261: without a runtime config initialize() returns true and
\* nothing is started; with one the channel is started or startup fails
CtlInitializeApp(started) ==
    /\ ctl.pc = "app"
    /\ ctl' = IF ~ctl.runtime.isdict THEN [ctl EXCEPT !.pc = "running"]
              ELSE IF started THEN [ctl EXCEPT !.pc = "running", !.channel = TRUE]
              ELSE [ctl EXCEPT !.pc = "exit"]
    /\ UNCHANGED registry
    /\ UNCHANGED <<appvars, cfgvars, app, chan, last, chanOps, api>>

\* main.py:532-541: one round of the main loop, which only sleeps
CtlRunAsync ==
    /\ ctl.pc = "running"
    /\ ctl' = [ctl EXCEPT !.tick = 1 - @]
    /\ UNCHANGED registry
    /\ UNCHANGED <<appvars, cfgvars, app, chan, last, chanOps, api>>

\* main.py:559-572: the process is started again; the cache file stays
CtlRestart ==
    /\ ctl.pc \in {"running", "exit"}
    /\ ctl' = NewController("boot", ctl.cache)
    /\ UNCHANGED registry
    /\ UNCHANGED <<appvars, cfgvars, app, chan, last, chanOps, api>>

\* routers/config.py:312-415: a train is registered for a controller
RegisterTrainForController(controller_uuid, train_id) ==
    /\ registry' = register_train_for_controller(registry, controller_uuid, train_id).registry
    /\ UNCHANGED ctl
    /\ UNCHANGED <<appvars, cfgvars, app, chan, last, chanOps, api>>

\* the steps the controller process takes by itself
CtlStep ==
    \/ \E online \in BOOLEAN : CtlBoot(online)
    \/ \E net \in Nets : CtlCheckExists(net)
    \/ \E net \in Nets, name \in {"pi"}, new_uuid \in Uuids :
           CtlRegister(net, name, new_uuid)
    \/ \E net \in Nets, saved \in BOOLEAN : CtlDownload(net, saved)
    \/ \E started \in BOOLEAN : CtlInitializeApp(started)
    \/ CtlRunAsync

RegNext ==
    \/ CtlStep
    \/ CtlRestart
    \/ \E u \in Uuids, t \in {"t1", "t2"} : RegisterTrainForController(u, t)

RegSpec == RegInit /\ [][RegNext]_vars

\* the process keeps running: a step it can take is taken; restarts and the
\* administrator's requests may never happen
RegFairSpec == RegSpec /\ WF_vars(CtlStep)



\* ================================================================== claims
InRange(s) == s \in SpeedMin..SpeedMax
Quiescent == ready = <<>> /\ \A i \in TaskIds : ~Live(tasks[i])
HasCall(c) == \E k \in 1..Len(calls) : calls[k] = c
SpeedCalls == {k \in 1..Len(calls) : calls[k].op \in {"start", "set_speed"}}

\* C1: every numeric speed value passed to the driver, by start, by set_speed
\* and by each ramp step, lies in [0,100], also for commands whose speed is
\* outside [0,100].
C1_DriverSpeedInRange ==
    \A k \in SpeedCalls : calls[k].speed # NullSpeed => InRange(calls[k].speed)

\* the ramp of task j was scheduled by the command right after the one that
\* scheduled task j-1, while j-1 had not finished, and no command came later
RampAThenB(j) ==
    /\ speed_task = j /\ lastSched = j
    /\ tasks[j-1].cfCancelled
    /\ tasks[j].seq = tasks[j-1].seq + 1

C3_OneActiveRamp ==
    /\ \A i, j \in TaskIds : (i < j /\ tasks[j].st # "none") => FutureDone(tasks[i])
    /\ Cardinality({i \in TaskIds : Live(tasks[i]) /\ ~tasks[i].cfCancelled}) <= 1
    /\ (act.kind = "step" /\ (calls # <<>> \/ pubs # <<>>))
       => \A j \in TaskIds : j > act.task => tasks[j].step = 0

C3_Witness ==
    /\ act.kind = "step" /\ act.task = 2 /\ tasks[2].step >= 1
    /\ tasks[1].cfCancelled /\ tasks[1].nSet >= 1 /\ tasks[1].step < Abs(tasks[1].target - tasks[1].cur)

\* C4: the step at which a ramp is cancelled publishes exactly one status,
\* carrying the speed the ramp had reached.
C4_CancelPublishesFinalStatus ==
    (act.kind = "step" /\ act.raised = "CancelledError")
    => /\ Len(pubs) = 1
       /\ pubs[1].speed = hw.current_speed

HandledCommand == act.kind = "message" /\ handler = "app" /\ msg.invoked = 1
IsRampCommand(c) ==
    /\ c.action = "setSpeed" \/ (c.action = "none" /\ c.speed # NoSpeed)
    /\ c.speed \notin {NoSpeed, NullSpeed}
\* the direction the spec assigns to a direction value: "forward" in either
\* case and the legacy 1 are forward, a missing value is forward, the rest
\* is reverse
ExpectedDir(d) == IF d \in {"absent", "forward", "FORWARD", "i1"} THEN 1 ELSE 0

\* C6: handling a setSpeed command returns without any ramp step: the ramp
\* is only queued, no driver call and no publish is made by the handler; and
\* a command that arrives while a ramp is in flight is handled all the same.
C6_RampDoesNotBlock ==
    /\ (act.kind = "message" /\ msg.sched # 0)
       => /\ calls = <<>> /\ pubs = <<>>
          /\ tasks[msg.sched].st = "pending" /\ tasks[msg.sched].step = 0
          /\ ready # <<>> /\ ready[Len(ready)] = Item("create", msg.sched)
    /\ (/\ act.kind = "message" /\ handler = "app"
        /\ msg.payload.utf8 /\ msg.payload.wellformed /\ msg.payload.kind = "object"
        /\ \E i \in TaskIds : i # msg.sched /\ Live(tasks[i]))
       => /\ msg.invoked = 1 /\ msg.hexc = NoExc
          /\ IsRampCommand(msg.arg) => (msg.sched # 0 /\ speed_task = msg.sched)
          /\ msg.arg.action = "stop" => HasCall(Call("stop", NoArg, NoArg))

C6_Witness ==
    /\ act.kind = "message" /\ msg.sched = 2
    /\ tasks[1].st = "sleeping" /\ tasks[1].step = 1
    /\ tasks[2].st = "pending"

\* C7: a setSpeed or bare speed command that carries a direction has
\* set_direction called with the normalised direction before the first step
\* of its ramp.  (No ramp step calls set_direction, so the call has to be
\* made while the command is handled.)
C7_DirectionBeforeRamp ==
    (HandledCommand /\ IsRampCommand(msg.arg) /\ msg.arg.direction # "absent"
     /\ msg.hraised \notin {"OSError", "TypeError"})
    => HasCall(Call("set_direction", NoArg, ExpectedDir(msg.arg.direction)))

C9_NoExceptionEscapes ==
    /\ (act.kind = "message" /\ handler = "app")
       => /\ msg.hexc = NoExc /\ msg.escaped = NoExc
          /\ (msg.payload.utf8 /\ msg.payload.wellformed /\ msg.payload.kind = "object")
             => msg.invoked = 1
    /\ act.kind = "step" => ~IsException(act.left)

C9_Witness ==
    /\ HandledCommand /\ nCmds = 2 /\ faulted
    /\ msg.raised = NoExc /\ msg.hraised = NoExc
    /\ msg.arg.action = "stop" /\ Len(pubs) = 1

\* C10: _on_message calls the handler exactly once, with the decoded object,
\* for a payload that is valid UTF-8 and well-formed JSON with an object at
\* top level, and not at all for any other payload; no exception leaves
\* _on_message, also when the handler raises.
C10_OnMessageDispatch ==
    act.kind = "message" =>
        /\ msg.invoked = IF msg.payload.utf8 /\ msg.payload.wellformed
                            /\ msg.payload.kind = "object" THEN 1 ELSE 0
        /\ msg.invoked = 1 => msg.arg = msg.payload.value
        /\ msg.invoked = 0 => (calls = <<>> /\ pubs = <<>> /\ msg.sched = 0)
        /\ msg.escaped = NoExc

C10_Witness ==
    /\ act.kind = "message" /\ handler = "stub"
    /\ msg.invoked = 1 /\ msg.raised = "HandlerError" /\ msg.escaped = NoExc
    /\ msg.arg = Command("stop", NoSpeed, "absent")

\* ==================================================== claims: configuration
RunEnded == cfgpc \in {"returned", "raised"}
Returned == cfgpc = "returned"
Did(op) == \E k \in 1..Len(io) : io[k].op = op
ServiceConfigUnusable == io # <<>> /\ io[1].op = "load_service" /\ io[1].arg # "ok"
ProbeFailedNoCache == mgr.path = "offline" /\ ~Truthy(mgr.cached)
RegistrationFailed == Did("POST_register") /\ mgr.registered = Missing

\* C11: initialize() raises ConfigurationError exactly when the service config
\* file is missing or unparseable, or the probe fails and no cached runtime
\* config can be loaded, or the registration request fails; in every other
\* situation it returns a pair and raises nothing.
C11_RaisesInThreeSituations ==
    RunEnded =>
        IF ServiceConfigUnusable \/ ProbeFailedNoCache \/ RegistrationFailed
        THEN cfgpc = "raised" /\ mgr.exc = "ConfigurationError"
        ELSE cfgpc = "returned" /\ mgr.exc = NoExc

\* C12: freshest wins: in every run of initialize() in which
\* download_runtime_config returned a config, for a recognised cached uuid or
\* right after a registration, initialize() returns exactly that config, never
\* an older cached copy and never absent.
C12_FreshestWins ==
    (RunEnded /\ Truthy(mgr.fresh)) => (Returned /\ mgr.runtime = mgr.fresh)

\* the run found a cached uuid that check_controller_exists answered false for,
\* and the registration that follows has been attempted
UnknownUuidHandled == mgr.unknown /\ cfgpc \notin {"register"}
Count(op) == Cardinality({k \in 1..Len(io) : io[k].op = op})

RefreshDownloadAbsent ==
    mgr.path = "refresh" /\ Did("GET_config") /\ ~Truthy(mgr.fresh)

C15_OfflineOnlyIfComplete ==
    (mgr.path = "offline" /\ Returned) =>
        (mgr.runtime.train_id # Missing /\ mgr.runtime.mqtt_broker # Missing)

\* a controller without a cached uuid registered successfully and the config
\* download that followed yielded absent
RegisteredDownloadAbsent ==
    /\ ~mgr.unknown /\ mgr.path = "new" /\ ~In("uuid", mgr.cached)
    /\ mgr.registered # Missing
    /\ Did("GET_config") /\ ~Truthy(mgr.fresh)

\* C16: for a controller with no cached uuid and a reachable registry, when
\* register_controller() succeeds and the config download yields absent,
\* initialize() returns (service, absent) and raises nothing.
C16_RegisteredUnassigned ==
    RegisteredDownloadAbsent =>
        (Returned /\ mgr.service /\ mgr.runtime = None /\ mgr.exc = NoExc)

C16_Witness ==
    /\ RegisteredDownloadAbsent /\ Returned
    /\ mgr.before = NoFile /\ cacheFile = NoFile
    /\ mgr.registered = "u2" /\ mgr.runtime = None
    /\ io[Len(io)] = Event("GET_config", "u2")

\* C17: in every run of initialize() the cache file differs from what it held
\* before the run only if download_runtime_config returned a config in that
\* run, and then the file holds exactly that config; the offline path, a
\* failed download and a failed registration leave the file unchanged.
C17_CacheWrittenOnlyAfterDownload ==
    RunEnded =>
        /\ (~Truthy(mgr.fresh) => cacheFile = mgr.before)
        /\ (cacheFile # mgr.before =>
                load_cached_runtime_config(cacheFile, TRUE) = mgr.fresh)

HttpOps == {"GET_ping", "GET_controller_ping", "POST_register", "GET_config"}
CacheReadBefore(k) == \E j \in 1..(k - 1) : io[j].op = "load_cache"

\* C18 as stated: in every run of initialize() load_cached_runtime_config()
\* happens before the first HTTP request to the registry, the probe included.
C18_CacheReadBeforeAnyRequest ==
    \A k \in 1..Len(io) : io[k].op \in HttpOps => CacheReadBefore(k)

\* C18 amended: in every run of initialize() the probe's GET /api/ping
\* attempts come first, then load_cached_runtime_config() is called, exactly
\* once, and every existence check, registration and config download of the
\* run comes after that read.
C18_CacheReadAfterProbeOnly ==
    /\ \A k \in 1..Len(io) :
           /\ io[k].op \in (HttpOps \ {"GET_ping"}) => CacheReadBefore(k)
           /\ io[k].op = "GET_ping" => ~CacheReadBefore(k)
           /\ io[k].op = "load_cache" => (k > 1 /\ io[k - 1].op = "GET_ping")
    /\ Count("load_cache") <= 1
    /\ (cfgpc \in {"exists", "register", "download", "save", "returned", "stopped"}
            => Count("load_cache") = 1)

C18_Witness ==
    /\ Returned /\ Did("GET_controller_ping") /\ Did("GET_config")
    /\ Count("GET_ping") = 2
    /\ io[4].op = "load_cache"

\* C19: the cache file is overwritten atomically: if the process stops at any
\* point during save_runtime_config(new), a later load_cached_runtime_config()
\* yields the complete previous config or the complete new config, never an
\* empty, truncated or unparseable document, and never absent when a previous
\* config existed.
C19_AtomicOverwrite ==
    cfgpc = "stopped" =>
        load_cached_runtime_config(cacheFile, TRUE)
            \in {load_cached_runtime_config(mgr.before, TRUE), mgr.fresh}

\* C20: round trip: for every runtime config c and whatever the cache file
\* held before, save_runtime_config(c) followed by
\* load_cached_runtime_config() returns a config equal to c.
C20_SaveLoadRoundTrip ==
    (Returned /\ mgr.saved = "ok") =>
        load_cached_runtime_config(cacheFile, TRUE) = mgr.fresh

C20_Witness ==
    /\ Returned /\ mgr.saved = "ok"
    /\ mgr.before.exists /\ mgr.before # cacheFile
    /\ load_cached_runtime_config(mgr.before, TRUE).train_id = "t1"
    /\ mgr.fresh = Dict("u2", Missing, "b1")
    /\ load_cached_runtime_config(cacheFile, TRUE) = Dict("u2", Missing, "b1")

\* ===================================================== claims: the channel
IsCall(op) == last.op = op
HasEvent(op) == \E k \in 1..Len(last.events) : last.events[k].op = op
BrokerStepFailed ==
    last.args.dumps # NoExc \/ last.args.pub # Returns(MQTT_ERR_SUCCESS)

\* C21: publish_status raises MQTTPublishError exactly when the broker publish
\* step fails (the status cannot be serialised, or the publish does not
\* return the success code) and raises nothing else; a fallback POST is made
\* only after a successful broker publish, which stays made, and no outcome
\* of the POST (non-200 answer, timeout, transport error) makes the call raise.
C21_PublishRaisesIffBrokerFails ==
    IsCall("publish_status") =>
        /\ last.exc = (IF BrokerStepFailed THEN "MQTTPublishError" ELSE NoExc)
        /\ \A k \in 1..Len(last.events) :
               last.events[k].op = "POST" =>
                   /\ k = 2
                   /\ last.events[1] =
                          ChanEvent("publish", "status_topic", Returns(MQTT_ERR_SUCCESS))

C21_Witness ==
    /\ IsCall("publish_status")
    /\ chan.url
    /\ ~BrokerStepFailed
    /\ last.args.post = Raises("Timeout")
    /\ Len(last.events) = 2
    /\ last.events[2].op = "POST"
    /\ last.exc = NoExc

\* C22: with a fallback URL configured, every publish_status call attempts
\* the HTTP POST, also a call whose broker publish fails.
C22_PostOnEveryPublish ==
    (IsCall("publish_status") /\ chan.url) => HasEvent("POST")

\* C23: every connect acknowledgement with return code 0, the first and each
\* later one, makes exactly one subscribe call, to commands_topic, and an
\* acknowledgement with any other return code makes none.
C23_OneSubscribePerAcceptedConnection ==
    IsCall("_on_connect") =>
        IF last.args.return_code = 0
        THEN /\ Len(last.events) = 1
             /\ last.events[1] = ChanEvent("subscribe", "commands_topic", last.args.sub)
        ELSE last.events = <<>>

C23_Witness ==
    /\ IsCall("_on_connect")
    /\ last.args.return_code = 0
    /\ chan.accepted = 2
    /\ Len(last.events) = 1
    /\ last.events[1].op = "subscribe"

\* C24: initialize() returns false whenever configuration raised
\* ConfigurationError or MQTTClient.start() raised; when the connect fails,
\* start() raises MQTTConnectionError and the background loop is not started;
\* initialize() returns true only with the runtime config absent and neither
\* driver nor channel created, or with the driver created and start()
\* returned normally.
C24_NoSilentPartialStartup ==
    /\ app.config = "ConfigurationError" => app.result = "False"
    /\ app.started \notin {"none", "ok"} => app.result = "False"
    /\ (IsCall("start") /\ last.args.conn.exc # NoExc) =>
           /\ last.exc = "MQTTConnectionError"
           /\ ~HasEvent("loop_start")
           /\ ~chan.loop
           /\ app.pc = "done" => app.result = "False"
    /\ app.result = "True" =>
           \/ app.config = "absent" /\ ~app.hardware_controller /\ ~app.mqtt_client
           \/ app.hardware_controller /\ app.started = "ok"

C24_Witness ==
    /\ app.pc = "done"
    /\ app.hardware_controller
    /\ IsCall("start")
    /\ last.args.conn = Raises("ConnectionRefusedError")
    /\ app.result = "False"

\* C25: every stop() call, before start(), after start() and after an
\* earlier stop(), also one whose loop stop or disconnect fails, returns
\* normally and leaves the session disconnected.
C25_StopLeavesSessionDisconnected ==
    IsCall("stop") => last.exc = NoExc /\ chan.session \in {"none", "closed"}

\* ================================================= claims: the API client
IsApiCall(op) == api.op = op
AllFail(script) == \A i \in 1..Len(script) : script[i].code \notin 200..299
FirstIn(script, codes) ==
    IF \E i \in 1..Len(script) : script[i].code \in codes
    THEN CHOOSE i \in 1..Len(script) :
             /\ script[i].code \in codes
             /\ \A j \in 1..(i - 1) : script[j].code \notin codes
    ELSE 0

C27_TrueOnFirst2xx ==
    (IsApiCall("check_accessibility") /\ FirstIn(api.arg, 200..299) > 0) =>
        /\ api.out.ok
        /\ Times("GET", api.out.ops) = FirstIn(api.arg, 200..299)

\* C27 amended: check_accessibility() returns true at the first attempt
\* answered with status 200 and makes no attempt after it; an attempt
\* answered with another status, 2xx included, is a failed attempt.
C27_TrueOnFirst200 ==
    IsApiCall("check_accessibility") =>
        LET k == FirstIn(api.arg, {HTTP_OK})
        IN  IF k > 0
            THEN api.out.ok /\ Times("GET", api.out.ops) = k
            ELSE ~api.out.ok /\ Times("GET", api.out.ops) = api.max_retries

C27_Witness ==
    /\ IsApiCall("check_accessibility")
    /\ api.max_retries = MaxTries
    /\ api.arg[1].code = 204
    /\ api.arg[2].code = HTTP_OK
    /\ api.out.ok
    /\ Times("GET", api.out.ops) = 2

\* C28: download_runtime_config(uuid) never raises; it yields absent for 404,
\* for any other non-2xx status, for a transport error or timeout, for invalid
\* JSON and for a body that is no object; it returns a config only for a 2xx
\* answer with a JSON object body, and that config's uuid is the requested one.
C28_ConfigOnlyFor2xxObject ==
    IsApiCall("download_runtime_config") =>
        /\ api.exc = NoExc
        /\ IF api.arg.code \in 200..299 /\ api.arg.json = "dict"
           THEN api.out.isdict /\ api.out.uuid = api.uuid
           ELSE api.out = None

\* C29: register_controller() either returns the non-empty uuid of the
\* response body or raises APIRegistrationError; it raises on a transport
\* failure, on a non-2xx status and on a body without a uuid field, and never
\* returns an empty or absent uuid.
C29_UuidOrRegistrationError ==
    IsApiCall("register_controller") =>
        IF /\ api.arg.code \in 200..299
           /\ api.arg.json = "dict"
           /\ api.arg.body.uuid \notin {Missing, Null, ""}
        THEN api.exc = NoExc /\ api.out = api.arg.body.uuid
        ELSE api.exc = "APIRegistrationError"

\* C30: send_heartbeat() returns the boolean false for a network error, a
\* timeout, a 404 answer and a 5xx answer, and true only for a 200 answer.
C30_FalseOnEveryFailure ==
    IsApiCall("send_heartbeat") =>
        /\ api.exc = NoExc
        /\ api.out = (IF api.arg.code = HTTP_OK THEN "True" ELSE "False")

\* ============================================ claims: speed after commands
\* C31: once a setSpeed command with target t in [0,100] has been handled, no
\* later command arrives and all activity has ceased, the driver's speed is
\* t, whatever commands came before it (here: in runs in which no driver
\* call and no publish failed).
C31_TargetReached ==
    (/\ Quiescent
     /\ lastSched > 0
     /\ InRange(tasks[lastSched].target)
     /\ ~faulted)
    => hw.current_speed = tasks[lastSched].target

\* C32: between an executed stop command and the next start or setSpeed
\* command the driver receives no non-zero speed, not from a ramp that was
\* in flight when the stop arrived either.
C32_StopHolds ==
    held => /\ hw.current_speed = 0
            /\ \A k \in SpeedCalls :
                   calls[k].speed # NullSpeed => Clamp(calls[k].speed) = 0

\* C33: whenever no ramp is in flight, train_status["speed"], from which the
\* next ramp starts, equals the driver's current speed.
C33_RecordedSpeedIsDriverSpeed ==
    Quiescent => train_speed = hw.current_speed

\* ============================================= claims: refused connection
\* C34: when the broker refuses the connection in its connect
\* acknowledgement (return code other than 0), the start() that opened the
\* session has raised MQTTConnectionError and has not returned normally.
C34_RefusedConnectionRaises ==
    (IsCall("_on_connect") /\ last.args.return_code # 0) =>
        /\ chan.started = "MQTTConnectionError"
        /\ app.result # "True"

\* ============================================ claims: identity and registry
\* C35: after a run of initialize() in which register_controller() succeeded,
\* the cache file holds the uuid the registry assigned, whether or not a
\* runtime config could be downloaded.
C35_RegisteredUuidIsCached ==
    (cfgpc = "returned" /\ mgr.registered # Missing) =>
        load_cached_runtime_config(cacheFile, TRUE).uuid = mgr.registered

\* the registry would now answer the controller's config request with a
\* runtime config
Available ==
    Truthy(download_runtime_config(get_controller_runtime_config(registry, ctl.uuid),
                                   ctl.uuid))

\* C36: a controller running without a runtime config, for whose uuid the
\* registry has a runtime config, eventually starts its message channel
\* unless the process is started again first.
C36_WaitingControllerStartsChannel ==
    (ctl.pc = "running" /\ ~ctl.runtime.isdict /\ Available)
        ~> (ctl.channel \/ ctl.pc = "boot")

\* C37: a config request that reaches the registry for a registered
\* controller with no train is answered 404, the download yields nothing, and
\* no answer to it names a train.
C37_UnassignedGets404 ==
    (ctl.download.asked /\ ctl.download.ec.found /\ ctl.download.ec.trains = <<>>) =>
        /\ ctl.download.resp.code = HTTP_NOT_FOUND
        /\ ~Truthy(download_runtime_config(ctl.download.resp, ctl.uuid))
        /\ ctl.download.resp.body.train_id = Missing

\* C38 as stated: when the existence check was made for a cached uuid that
\* the registry holds, this run of initialize() makes no registration request.
C38_KeepsIdentity ==
    (ctl.exists.asked /\ ctl.exists.ec.found) => ~ctl.posted

\* C38: initialize() makes no registration request when the existence check
\* for the cached uuid is answered 200, and registers as new after any other
\* outcome of the check (404, server error, transport error or timeout).
C38_RegistersIffCheckNot200 ==
    ctl.exists.asked =>
        /\ ctl.exists.resp.code = HTTP_OK => ~ctl.posted
        /\ (ctl.exists.resp.code # HTTP_OK /\ ctl.pc # "register") => ctl.posted

C38_Witness ==
    /\ ctl.exists.asked
    /\ ctl.exists.ec.found
    /\ ctl.exists.resp.code = 0
    /\ ctl.posted
    /\ ctl.pc = "download"

\* ================================================== claims: the manager
\* C39: once initialize() has returned (service, runtime), the service_config
\* property yields the service config and the runtime_config property yields
\* runtime; before initialize() has loaded anything, reading service_config
\* raises ConfigurationError.
C39_PropertiesMatchReturn ==
    /\ cfgpc = "returned" =>
           /\ service_config_property(mgr) = [exc |-> NoExc, set |-> TRUE]
           /\ runtime_config_property(mgr) = mgr.runtime
    /\ cfgpc = "boot" => service_config_property(mgr).exc = "ConfigurationError"

HasValue(k, c) == c.isdict /\ c[k] \notin {Missing, Null}

\* C40: where initialize() falls back on the cached config (refresh path, no
\* fresh config saved), _is_runtime_config_complete accepts the cached config,
\* and so it is returned, exactly when train_id and mqtt_broker are both
\* present and not None.
C40_CompleteMeansNotNone ==
    (cfgpc = "returned" /\ mgr.path = "refresh" /\ mgr.saved # "ok") =>
        /\ is_runtime_config_complete(mgr.cached) <=>
               (HasValue("train_id", mgr.cached) /\ HasValue("mqtt_broker", mgr.cached))
        /\ Truthy(mgr.runtime) <=>
               (HasValue("train_id", mgr.cached) /\ HasValue("mqtt_broker", mgr.cached))

====
